---- MODULE Spec2Model ----
(***************************************************************************)
(* Model of the Obsidian vault indexer (index_notes.py) and searcher       *)
(* (search_notes.py).  Text is a sequence of one-character strings, so     *)
(* that str.strip, str.split and ' '.join are computed as Python computes  *)
(* them.  The vector store (a chromadb collection) is a sequence of        *)
(* records in insertion order.                                             *)
(***************************************************************************)
EXTENDS Integers, Sequences, FiniteSets, TLC

VARIABLES
    content, chunk_size, overlap, chunks, cpc,      \* one call of chunk_content
    vault, store, passes, edits, fresh, sameVault,  \* indexer
    lastClear, prevClear, storeBefore,
    failed_files, total_chunks, collection_count,
    results, storeCall, call, loop, out, event, lastLine,  \* searcher
    turn

chunkVars == <<content, chunk_size, overlap, chunks, cpc>>
indexVars == <<vault, store, passes, edits, fresh, sameVault, lastClear, prevClear,
               storeBefore, failed_files, total_chunks, collection_count>>
searchVars == <<results, storeCall, call, loop, out, event, lastLine, turn>>
vars == <<chunkVars, indexVars, searchVars>>

----------------------------------------------------------------------------
(* Bounds *)

\* longest text given to chunk_content on its own
MaxTextLen == 7
\* largest chunk_size tried for chunk_content on its own
MaxChunkSize == 3
\* largest overlap tried for chunk_content on its own
MaxOverlap == 3

----------------------------------------------------------------------------
(* Python string primitives *)

Min(a, b) == IF a < b THEN a ELSE b

\* str.isspace for the characters of the model
IsSpace(c) == c \in {" ", "\n", "\t"}

RECURSIVE LStrip(_)
LStrip(s) ==
    IF s = <<>> THEN <<>>
    ELSE IF IsSpace(Head(s)) THEN LStrip(Tail(s)) ELSE s

RECURSIVE RStrip(_)
RStrip(s) ==
    IF s = <<>> THEN <<>>
    ELSE IF IsSpace(s[Len(s)]) THEN RStrip(SubSeq(s, 1, Len(s) - 1)) ELSE s

\* str.strip()
Strip(s) == RStrip(LStrip(s))

\* str.split() with no argument: maximal runs of non-whitespace
RECURSIVE SplitFrom(_, _)
SplitFrom(s, cur) ==
    IF s = <<>> THEN (IF cur = <<>> THEN <<>> ELSE <<cur>>)
    ELSE IF IsSpace(Head(s))
         THEN (IF cur = <<>> THEN SplitFrom(Tail(s), <<>>)
               ELSE <<cur>> \o SplitFrom(Tail(s), <<>>))
         ELSE SplitFrom(Tail(s), Append(cur, Head(s)))

Split(s) == SplitFrom(s, <<>>)

\* ' '.join(ws)
RECURSIVE Join(_)
Join(ws) ==
    IF ws = <<>> THEN <<>>
    ELSE IF Len(ws) = 1 THEN ws[1]
    ELSE ws[1] \o <<" ">> \o Join(Tail(ws))

\* ws[i:j] for 0 <= i, 0 <= j (Python slice, clipped at the end)
Slice(ws, i, j) == SubSeq(ws, i + 1, Min(j, Len(ws)))

\* list(range(0, n, step)) for step > 0
RECURSIVE RangeFrom(_, _, _)
RangeFrom(i, n, step) ==
    IF i >= n THEN <<>> ELSE <<i>> \o RangeFrom(i + step, n, step)

----------------------------------------------------------------------------
(* index_notes.py: chunk_content *)

\* the windows of the for loop, empty windows dropped
RECURSIVE Windows(_, _, _)
Windows(words, starts, size) ==
    IF starts = <<>> THEN <<>>
    ELSE LET chunk == Join(Slice(words, Head(starts), Head(starts) + size))
             rest == Windows(words, Tail(starts), size)
         IN  IF Strip(chunk) # <<>> THEN <<chunk>> \o rest ELSE rest

\* mutant: a short text is returned re-joined from its words, not as it is
chunk_content_rejoin(text, size, ov) ==
    IF Strip(text) = <<>> THEN [raised |-> FALSE, chunks |-> <<>>]
    ELSE LET words == Split(text) IN
         IF Len(words) <= size
         THEN [raised |-> FALSE, chunks |-> <<Join(words)>>]
         ELSE IF size - ov = 0 THEN [raised |-> TRUE, chunks |-> <<>>]
         ELSE IF size - ov < 0 THEN [raised |-> FALSE, chunks |-> <<>>]
         ELSE [raised |-> FALSE,
               chunks |-> Windows(words, RangeFrom(0, Len(words), size - ov), size)]

\* mutant: the window advances by chunk_size, the overlap is forgotten
chunk_content_nooverlap(text, size, ov) ==
    IF Strip(text) = <<>> THEN [raised |-> FALSE, chunks |-> <<>>]
    ELSE LET words == Split(text) IN
         IF Len(words) <= size
         THEN [raised |-> FALSE, chunks |-> <<text>>]
         ELSE [raised |-> FALSE,
               chunks |-> Windows(words, RangeFrom(0, Len(words), size), size)]

\* chunk_content(content, chunk_size, overlap).  raised: range() was given a
\* step of 0 (ValueError); a negative step is an empty range.
chunk_content(text, size, ov) ==
    IF Strip(text) = <<>> THEN [raised |-> FALSE, chunks |-> <<>>]
    ELSE LET words == Split(text) IN
         IF Len(words) <= size
         THEN [raised |-> FALSE, chunks |-> <<text>>]
         ELSE IF size - ov = 0 THEN [raised |-> TRUE, chunks |-> <<>>]
         ELSE IF size - ov < 0 THEN [raised |-> FALSE, chunks |-> <<>>]
         ELSE [raised |-> FALSE,
               chunks |-> Windows(words, RangeFrom(0, Len(words), size - ov), size)]

----------------------------------------------------------------------------
(* The vault: files under the vault root *)

\* chunk_size and overlap of chunk_content as index_vault calls it (the
\* defaults, 500 and 50 words), scaled to the texts of the model
DefaultChunkSize == 3
DefaultOverlap == 1
\* index passes in one behaviour
MaxPasses == 3
\* changes to the vault in one behaviour
MaxEdits == 1

SystemDir == <<"S", "y", "s", "t", "e", "m">>
MdExt == <<".", "m", "d">>

\* relative paths: the directory names below the root, then the file name
PA == [dir |-> << <<"p">> >>, name |-> <<"a", ".", "m", "d">>]
PB == [dir |-> << <<"p">> >>, name |-> <<"b", ".", "m", "d">>]
PC == [dir |-> <<>>, name |-> <<"c", ".", "m", "d">>]
PT == [dir |-> << <<"p">> >>, name |-> <<"t", ".", "t", "x", "t">>]
PS == [dir |-> <<SystemDir>>, name |-> <<"s", ".", "m", "d">>]
PH == [dir |-> << <<".", "o">> >>, name |-> <<"h", ".", "m", "d">>]
Paths == {PA, PB, PC, PT, PS, PH}
\* the files the behaviours change; the others keep their first content
Editable == {PA, PC}

\* file contents of the model: letters and blanks only, so that of the
\* substitutions of extract_content only the final strip has an effect
TBlank == <<" ">>
TOne == <<" ", "b", " ", " ", "a">>
TTwo == <<"a", " ", "b", " ", "c", " ", "d">>
TTwoB == <<"d", " ", "c", " ", "b", " ", "a">>
TThree == <<"a", " ", "b", " ", "c", " ", "d", " ", "e", " ", "a", "\n">>
Texts == {TBlank, TOne, TTwo, TTwoB, TThree}

Absent == [st |-> "absent", text |-> <<>>]
Unreadable == [st |-> "unreadable", text |-> <<>>]
File(t) == [st |-> "ok", text |-> t]
FileStates == {Absent, Unreadable} \cup {File(t) : t \in Texts}
\* the states the behaviours give to each file they change
StatesOf(f) ==
    IF f = PA THEN FileStates
    ELSE {Absent, Unreadable, File(TBlank), File(TOne)}

\* the orders in which os.walk can meet the files: top-down, the root's
\* files before those of its subdirectories, a directory's files in the
\* order the file system lists them
Walks == { <<PC, PA, PB, PT, PS, PH>>, <<PC, PT, PB, PA, PH, PS>> }

\* '/'.join(parts)
RECURSIVE JoinSlash(_)
JoinSlash(parts) ==
    IF parts = <<>> THEN <<>>
    ELSE IF Len(parts) = 1 THEN parts[1]
    ELSE parts[1] \o <<"/">> \o JoinSlash(Tail(parts))

\* str(relative_path)
RelPath(f) == JoinSlash(Append(f.dir, f.name))
\* str(relative_path.parent): "." for a file directly under the root
ParentDir(f) == IF f.dir = <<>> THEN <<".">> ELSE JoinSlash(f.dir)
\* str(file_path): the path under the resolved vault root
VaultRoot == <<"/", "v">>
AbsPath(f) == VaultRoot \o <<"/">> \o RelPath(f)

\* str(j) for j >= 0
RECURSIVE Str(_)
Str(j) ==
    LET d == <<"0", "1", "2", "3", "4", "5", "6", "7", "8", "9">>
    IN  IF j < 10 THEN <<d[j + 1]>> ELSE Str(j \div 10) \o <<d[(j % 10) + 1]>>

EndsWith(s, suf) ==
    Len(s) >= Len(suf) /\ SubSeq(s, Len(s) - Len(suf) + 1, Len(s)) = suf

\* a directory os.walk descends into: not System, not hidden
Walked(d) == d # SystemDir /\ ~(d # <<>> /\ Head(d) = ".")

\* mutant: the System directory is walked like any other
get_markdown_files_system(v, walk) ==
    SelectSeq(walk, LAMBDA f :
        /\ v[f].st # "absent"
        /\ \A k \in 1..Len(f.dir) : ~(f.dir[k] # <<>> /\ Head(f.dir[k]) = ".")
        /\ EndsWith(f.name, MdExt))

\* get_markdown_files(): the .md files outside System and hidden directories
get_markdown_files(v, walk) ==
    SelectSeq(walk, LAMBDA f :
        /\ v[f].st # "absent"
        /\ \A k \in 1..Len(f.dir) : Walked(f.dir[k])
        /\ EndsWith(f.name, MdExt))

\* extract_content(file_path) on a readable file
extract_content(raw) == Strip(raw)

----------------------------------------------------------------------------
(* The collection: records in insertion order *)

Ids(st) == {st[k].id : k \in 1..Len(st)}

\* mutant: a record is stored whether or not its id is already there
CollectionAdd_dup(st, batch) == st \o batch

\* collection.add(documents, ids, metadatas): a record whose id the
\* collection already holds is left as it is, the others are appended
CollectionAdd(st, batch) ==
    st \o SelectSeq(batch, LAMBDA r : r.id \notin Ids(st))

\* collection.delete(ids)
CollectionDelete(st, ids) == SelectSeq(st, LAMBDA r : r.id \notin ids)

\* mutant: nothing is deleted
clear_collection_noop(st) == st

\* clear_collection()
clear_collection(st) ==
    IF Ids(st) # {} THEN CollectionDelete(st, Ids(st)) ELSE st

\* hashlib.md5(f"{relative_path}_{j}".encode()).hexdigest(): the hashed
\* string stands for its digest
DocId(f, j) == RelPath(f) \o <<"_">> \o Str(j)

\* mutant: the chunks are numbered from 1
Batch_from1(f, cs) ==
    [j \in 1..Len(cs) |->
        [id |-> DocId(f, j),
         document |-> cs[j],
         metadata |-> [file_path |-> RelPath(f),
                       chunk_index |-> j,
                       file_name |-> f.name,
                       directory |-> ParentDir(f),
                       total_chunks |-> Len(cs)]]]

\* the batch of one file: ids, documents and metadatas of its chunks
Batch(f, cs) ==
    [j \in 1..Len(cs) |->
        [id |-> DocId(f, j - 1),
         document |-> cs[j],
         metadata |-> [file_path |-> RelPath(f),
                       chunk_index |-> j - 1,
                       file_name |-> f.name,
                       directory |-> ParentDir(f),
                       total_chunks |-> Len(cs)]]]

\* one turn of the loop of index_vault over file f; acc is the collection,
\* failed_files and total_chunks so far
IndexFile(acc, v, f) ==
    IF v[f].st = "unreadable"
    THEN [acc EXCEPT !.failed = Append(@, AbsPath(f))]
    ELSE LET text == extract_content(v[f].text) IN
         IF Strip(text) = <<>> THEN acc
         ELSE LET r == chunk_content(text, DefaultChunkSize, DefaultOverlap) IN
              IF r.raised THEN [acc EXCEPT !.failed = Append(@, AbsPath(f))]
              ELSE IF r.chunks = <<>> THEN acc
              ELSE [acc EXCEPT !.st = CollectionAdd(@, Batch(f, r.chunks)),
                               !.total = @ + Len(r.chunks)]

\* mutant: the first failing file ends the loop
RECURSIVE IndexFilesAbort(_, _, _)
IndexFilesAbort(acc, v, files) ==
    IF files = <<>> THEN acc
    ELSE LET nxt == IndexFile(acc, v, Head(files)) IN
         IF nxt.failed # acc.failed THEN nxt
         ELSE IndexFilesAbort(nxt, v, Tail(files))

\* the for loop of index_vault: a file that raises is recorded and the
\* loop goes on with the next file
RECURSIVE IndexFiles(_, _, _)
IndexFiles(acc, v, files) ==
    IF files = <<>> THEN acc
    ELSE IndexFiles(IndexFile(acc, v, Head(files)), v, Tail(files))

\* index_vault(clear_existing) over the vault v, met in the order walk
index_vault(st, v, clear, walk) ==
    IndexFiles([st |-> IF clear THEN clear_collection(st) ELSE st,
                failed |-> <<>>, total |-> 0],
               v, get_markdown_files(v, walk))


----------------------------------------------------------------------------
(* search_notes.py: the collection as the searcher reads it *)

\* n_results of search and search_by_directory when the caller gives none
DefaultNResults == 10
\* n_results of search_by_file_pattern when the caller gives none
DefaultPatternResults == 20
\* limit of list_files when the caller gives none
DefaultListLimit == 50
\* largest n_results given on the command line, besides the default
MaxNResults == 2

NoResults == [documents |-> <<>>, metadatas |-> <<>>, distances |-> <<>>]
NoCall == [op |-> "none", arg |-> <<>>, query |-> <<>>, n |-> 0]
NoOutput == [kind |-> "none", files |-> <<>>]

\* q[:n]
Take(q, n) == SubSeq(q, 1, Min(n, Len(q)))

\* a regular expression of literals, "." and "x*", matched at the start of s
RECURSIVE MatchHere(_, _)
MatchHere(pat, s) ==
    IF pat = <<>> THEN TRUE
    ELSE IF Len(pat) >= 2 /\ pat[2] = "*"
    THEN \E k \in 0..Len(s) :
            /\ \A i \in 1..k : pat[1] = "." \/ pat[1] = s[i]
            /\ MatchHere(SubSeq(pat, 3, Len(pat)), SubSeq(s, k + 1, Len(s)))
    ELSE /\ s # <<>>
         /\ (pat[1] = "." \/ pat[1] = Head(s))
         /\ MatchHere(Tail(pat), Tail(s))

\* the $regex operator: the expression matches somewhere in s
RegexSearch(pat, s) ==
    \E k \in 0..Len(s) : MatchHere(pat, SubSeq(s, k + 1, Len(s)))

\* f".*{x}.*"
Wrap(x) == <<".", "*">> \o x \o <<".", "*">>

NoWhere == [field |-> "none", op |-> "none", arg |-> <<>>]

\* a where filter applied to the metadata of a record
WhereHolds(where, md) ==
    IF where.op = "$regex" THEN RegexSearch(where.arg, md[where.field])
    ELSE IF where.op = "$eq" THEN md[where.field] = where.arg
    ELSE TRUE

\* collection.get(where=...): the matching records in stored order
CollectionGet(st, where) ==
    SelectSeq(st, LAMBDA r : WhereHolds(where, r.metadata))

\* orders in which the store may rank n records for a query: the model
\* tries the stored order and its reverse
Ranks(n) == {[k \in 1..n |-> k], [k \in 1..n |-> n + 1 - k]}

\* collection.query(query_texts, n_results, where): the n_results nearest
\* matching records.  The embedding decides the order; rank is the order it
\* gives, and the position in it stands for the distance.
CollectionQuery(st, where, n, rank) ==
    LET ranked == [k \in 1..Len(st) |-> st[rank[k]]]
        rs == Take(CollectionGet(ranked, where), n)
    IN  [documents |-> [k \in 1..Len(rs) |-> rs[k].document],
         metadatas |-> [k \in 1..Len(rs) |-> rs[k].metadata],
         distances |-> [k \in 1..Len(rs) |-> k]]

\* search(query, n_results, filter_metadata); oc is what the store does
search(st, query, n, where, oc) ==
    [calls |-> <<"query">>,
     results |-> IF oc.fail THEN NoResults
                 ELSE CollectionQuery(st, where, n, oc.rank)]

\* search_by_file_pattern(pattern, n_results)
search_by_file_pattern(st, pattern, n, oc) ==
    [calls |-> <<"query">>,
     results |-> IF oc.fail THEN NoResults
                 ELSE CollectionQuery(st,
                        [field |-> "file_path", op |-> "$regex", arg |-> Wrap(pattern)],
                        n, oc.rank)]

\* mutant: the similarity query is issued whatever the query text
search_by_directory_query(st, directory, query, n, oc) ==
    search(st, query, n,
           [field |-> "directory", op |-> "$regex", arg |-> Wrap(directory)], oc)

\* search_by_directory(directory, query, n_results)
search_by_directory(st, directory, query, n, oc) ==
    LET filter_dict == [field |-> "directory", op |-> "$regex",
                        arg |-> Wrap(directory)]
    IN  IF query # <<>> THEN search(st, query, n, filter_dict, oc)
        ELSE IF oc.fail THEN [calls |-> <<"get">>, results |-> NoResults]
        ELSE LET rs == Take(CollectionGet(st, filter_dict), n) IN
             [calls |-> <<"get">>,
              results |-> [documents |-> [k \in 1..Len(rs) |-> rs[k].document],
                           metadatas |-> [k \in 1..Len(rs) |-> rs[k].metadata],
                           distances |-> [k \in 1..Len(rs) |-> 0]]]

\* the characters of the paths in code point order
CodeOrder == <<".", "/", "0", "1", "2", "3", "4", "5", "6", "7", "8", "9",
               "S", "_", "a", "b", "c", "d", "e", "h", "m", "o", "p", "s",
               "t", "x", "y">>
Code(c) == CHOOSE i \in 1..Len(CodeOrder) : CodeOrder[i] = c

\* a < b for Python strings
StrLess(a, b) ==
    \E k \in 1..Len(b) :
        /\ \A i \in 1..(k - 1) : i <= Len(a) /\ a[i] = b[i]
        /\ (k > Len(a) \/ (k <= Len(a) /\ Code(a[k]) < Code(b[k])))

\* sorted(q) for a list of strings
SortedStrings(q) ==
    LET pos(i) == 1 + Cardinality({j \in 1..Len(q) :
                        StrLess(q[j], q[i]) \/ (~StrLess(q[i], q[j]) /\ j < i)})
    IN  [k \in 1..Len(q) |-> q[CHOOSE i \in 1..Len(q) : pos(i) = k]]

\* rs.sort(key=chunk_index): records of equal index keep their order
SortedByChunkIndex(rs) ==
    LET idx(i) == rs[i].metadata.chunk_index
        pos(i) == 1 + Cardinality({j \in 1..Len(rs) :
                        idx(j) < idx(i) \/ (idx(j) = idx(i) /\ j < i)})
    IN  [k \in 1..Len(rs) |-> rs[CHOOSE i \in 1..Len(rs) : pos(i) = k]]

\* get_file_content(file_path): the chunks of the file by chunk_index
get_file_content(st, file_path, oc) ==
    IF oc.fail THEN <<>>
    ELSE LET rs == CollectionGet(st, [field |-> "file_path", op |-> "$eq",
                                      arg |-> file_path])
             sorted == SortedByChunkIndex(rs)
         IN  [k \in 1..Len(sorted) |-> sorted[k].document]

\* the indices of q that hold the first occurrence of their value
FirstOccurrences(q) ==
    SelectSeq([k \in 1..Len(q) |-> k],
              LAMBDA k : \A j \in 1..(k - 1) : q[j] # q[k])

\* list_files(limit): the indexed file paths, sorted, the first limit shown
list_files(st, limit, oc) ==
    IF oc.fail THEN [kind |-> "error", files |-> <<>>]
    ELSE LET paths == [k \in 1..Len(st) |-> st[k].metadata.file_path]
             first == FirstOccurrences(paths)
             unique == [k \in 1..Len(first) |-> paths[first[k]]]
         IN  [kind |-> "files", files |-> Take(SortedStrings(unique), limit)]

\* format_results(results): the results grouped by file in the order the
\* files first appear, each with its number of chunks and its best chunk,
\* the first one of least distance
format_results(res) ==
    IF res.documents = <<>> THEN [kind |-> "no_results", files |-> <<>>]
    ELSE LET paths == [k \in 1..Len(res.metadatas) |-> res.metadatas[k].file_path]
             first == FirstOccurrences(paths)
             group(p) == {k \in 1..Len(paths) : paths[k] = p}
             best(p) == CHOOSE k \in group(p) :
                           \A j \in group(p) :
                              \/ res.distances[k] < res.distances[j]
                              \/ (res.distances[k] = res.distances[j] /\ k <= j)
         IN  [kind |-> "results",
              files |-> [i \in 1..Len(first) |->
                           LET p == paths[first[i]] IN
                           [file_path |-> p,
                            directory |-> res.metadatas[first[i]].directory,
                            chunks_found |-> Cardinality(group(p)),
                            rank |-> best(p),
                            distance |-> res.distances[best(p)]]]]

----------------------------------------------------------------------------
(* search_notes.py: interactive_search *)

UpperCase == <<"A", "B", "C", "D", "E", "F", "G", "H", "I", "J", "K", "L", "M",
               "N", "O", "P", "Q", "R", "S", "T", "U", "V", "W", "X", "Y", "Z">>
LowerCase == <<"a", "b", "c", "d", "e", "f", "g", "h", "i", "j", "k", "l", "m",
               "n", "o", "p", "q", "r", "s", "t", "u", "v", "w", "x", "y", "z">>

\* str.lower()
Lower(s) ==
    [k \in 1..Len(s) |->
        IF \E i \in 1..Len(UpperCase) : UpperCase[i] = s[k]
        THEN LowerCase[CHOOSE i \in 1..Len(UpperCase) : UpperCase[i] = s[k]]
        ELSE s[k]]

\* s.split(' ', 1): cut at the first space, if there is one
SplitOnce(s) ==
    IF \E k \in 1..Len(s) : s[k] = " "
    THEN LET k == CHOOSE i \in 1..Len(s) :
                     s[i] = " " /\ \A j \in 1..(i - 1) : s[j] # " "
         IN  <<SubSeq(s, 1, k - 1), SubSeq(s, k + 1, Len(s))>>
    ELSE <<s>>

QuitWords == {<<"q", "u", "i", "t">>, <<"e", "x", "i", "t">>, <<"q">>}
CmdSearch == <<"s", "e", "a", "r", "c", "h">>
CmdFile == <<"f", "i", "l", "e">>
CmdDir == <<"d", "i", "r">>
CmdContent == <<"c", "o", "n", "t", "e", "n", "t">>
CmdList == <<"l", "i", "s", "t">>

Step(lp, o, res, calls, c) ==
    [loop |-> lp, out |-> o, results |-> res, calls |-> calls, call |-> c]
Called(op, arg, query, n) == [op |-> op, arg |-> arg, query |-> query, n |-> n]
Say(kind) == [kind |-> kind, files |-> <<>>]

\* the handlers of the verbs that take an argument, lines 214-236
Handle(st, cmd, arg, oc) ==
    IF cmd = CmdSearch
    THEN LET r == search(st, arg, DefaultNResults, NoWhere, oc) IN
         Step("running", format_results(r.results), r.results, r.calls,
              Called("search", <<>>, arg, DefaultNResults))
    ELSE IF cmd = CmdFile
    THEN LET r == search_by_file_pattern(st, arg, DefaultPatternResults, oc) IN
         Step("running", format_results(r.results), r.results, r.calls,
              Called("search_by_file_pattern", arg, <<>>, DefaultPatternResults))
    ELSE IF cmd = CmdDir
    THEN LET r == search_by_directory(st, arg, <<>>, DefaultNResults, oc) IN
         Step("running", format_results(r.results), r.results, r.calls,
              Called("search_by_directory", arg, <<>>, DefaultNResults))
    ELSE LET cs == get_file_content(st, arg, oc) IN
         Step("running",
              IF cs = <<>> THEN Say("no_content")
              ELSE [kind |-> "content", files |-> cs],
              NoResults, <<"get">>,
              Called("get_file_content", arg, <<>>, 0))

\* mutant: a verb is dispatched without looking for its argument, and
\* parts[1] of a bare verb raises IndexError, which the loop reports
interactive_search_noargcheck(st, line, oc) ==
    LET command == Strip(line) IN
    IF command = <<>> THEN Step("running", NoOutput, NoResults, <<>>, NoCall)
    ELSE IF Lower(command) \in QuitWords
    THEN Step("exited", NoOutput, NoResults, <<>>, NoCall)
    ELSE LET parts == SplitOnce(command)
             cmd == Lower(parts[1])
         IN  IF cmd \in {CmdSearch, CmdFile, CmdDir, CmdContent}
             THEN IF Len(parts) > 1 THEN Handle(st, cmd, parts[2], oc)
                  ELSE Step("running", Say("error"), NoResults, <<>>, NoCall)
             ELSE IF cmd = CmdList
             THEN Step("running", list_files(st, DefaultListLimit, oc),
                       NoResults, <<"get">>, Called("list_files", <<>>, <<>>, 0))
             ELSE Step("running", Say("unknown"), NoResults, <<>>, NoCall)

\* one turn of the loop of interactive_search on an input line: whether the
\* loop goes on, what the turn prints, the results it got from the store
\* and the calls it made
interactive_search(st, line, oc) ==
    LET command == Strip(line) IN
    IF command = <<>> THEN Step("running", NoOutput, NoResults, <<>>, NoCall)
    ELSE IF Lower(command) \in QuitWords
    THEN Step("exited", NoOutput, NoResults, <<>>, NoCall)
    ELSE LET parts == SplitOnce(command)
             cmd == Lower(parts[1])
         IN  IF cmd \in {CmdSearch, CmdFile, CmdDir, CmdContent} /\ Len(parts) > 1
             THEN Handle(st, cmd, parts[2], oc)
             ELSE IF cmd = CmdList
             THEN Step("running", list_files(st, DefaultListLimit, oc),
                       NoResults, <<"get">>, Called("list_files", <<>>, <<>>, 0))
             ELSE Step("running", Say("unknown"), NoResults, <<>>, NoCall)

----------------------------------------------------------------------------
(* State machines *)

Alphabet == {"a", "b", " "}
TextsUpTo(n) == UNION {[1..k -> Alphabet] : k \in 0..n}

FirstVault(a, c) ==
    [f \in Paths |->
        IF f = PA THEN a
        ELSE IF f = PC THEN c
        ELSE IF f = PB THEN File(TOne)
        ELSE File(TTwo)]

ChunkIdle ==
    /\ content = <<>> /\ chunk_size = DefaultChunkSize
    /\ overlap = DefaultOverlap /\ chunks = <<>> /\ cpc = "idle"

IndexIdle ==
    /\ vault = FirstVault(Absent, Absent) /\ store = <<>>
    /\ passes = 0 /\ edits = 0 /\ fresh = FALSE /\ sameVault = FALSE
    /\ lastClear = FALSE /\ prevClear = FALSE /\ storeBefore = <<>>
    /\ failed_files = <<>> /\ total_chunks = 0 /\ collection_count = 0

SearchIdle ==
    /\ results = NoResults /\ storeCall = <<>> /\ call = NoCall
    /\ loop = "off" /\ out = NoOutput /\ event = "none" /\ lastLine = <<>>
    /\ turn = 0

(* chunk_content called on its own *)

InitChunk ==
    /\ content \in TextsUpTo(MaxTextLen)
    /\ chunk_size \in 1..MaxChunkSize
    /\ overlap \in 0..MaxOverlap
    /\ chunks = <<>> /\ cpc = "call"
    /\ IndexIdle /\ SearchIdle

ChunkContent ==
    /\ cpc = "call"
    /\ LET r == chunk_content(content, chunk_size, overlap) IN
        /\ chunks' = r.chunks
        /\ cpc' = IF r.raised THEN "raised" ELSE "returned"
    /\ UNCHANGED <<content, chunk_size, overlap, indexVars, searchVars>>

NextChunk == ChunkContent
SpecChunk == InitChunk /\ [][NextChunk]_vars

(* the indexer over a vault that changes between passes *)

Init ==
    /\ ChunkIdle /\ SearchIdle
    /\ \E a \in StatesOf(PA), c \in StatesOf(PC) : vault = FirstVault(a, c)
    /\ store = <<>>
    /\ passes = 0 /\ edits = 0 /\ fresh = FALSE /\ sameVault = FALSE
    /\ lastClear = FALSE /\ prevClear = FALSE /\ storeBefore = <<>>
    /\ failed_files = <<>> /\ total_chunks = 0 /\ collection_count = 0

\* a file is written, removed or made unreadable outside the program
EditVault(f, s) ==
    /\ edits < MaxEdits
    /\ vault[f] # s
    /\ vault' = [vault EXCEPT ![f] = s]
    /\ edits' = edits + 1
    /\ fresh' = FALSE
    /\ UNCHANGED <<store, passes, sameVault, lastClear, prevClear, storeBefore,
                   failed_files, total_chunks, collection_count,
                   chunkVars, searchVars>>

\* index_vault(clear_existing), the whole pass
IndexVault(clear, walk) ==
    /\ passes < MaxPasses
    /\ LET r == index_vault(store, vault, clear, walk) IN
        /\ store' = r.st
        /\ failed_files' = r.failed
        /\ total_chunks' = r.total
        /\ collection_count' = Len(r.st)
    /\ storeBefore' = store
    /\ passes' = passes + 1
    /\ prevClear' = lastClear
    /\ lastClear' = clear
    /\ sameVault' = fresh
    /\ fresh' = TRUE
    /\ UNCHANGED <<vault, edits, chunkVars, searchVars>>

Next ==
    \/ \E f \in Editable : \E s \in StatesOf(f) : EditVault(f, s)
    \/ \E clear \in BOOLEAN, walk \in Walks : IndexVault(clear, walk)

Spec == Init /\ [][Next]_vars

(* the searcher over a collection an index pass has filled *)

\* the input lines of the model
Lines ==
    { <<>>,
      <<" ", " ">>,
      <<"q", "u", "i", "t">>,
      <<" ", "Q", "U", "I", "T", " ">>,
      <<"e", "x", "i", "t">>,
      <<"q">>,
      <<"q", "u", "i", "t", " ", "n", "o", "w">>,
      <<"s", "e", "a", "r", "c", "h">>,
      <<"s", "e", "a", "r", "c", "h", " ", "a">>,
      <<"S", "e", "a", "r", "c", "h", " ", " ", "a">>,
      <<"f", "i", "l", "e">>,
      <<"f", "i", "l", "e", " ", "a">>,
      <<"f", "i", "l", "e", " ", "x">>,
      <<"d", "i", "r">>,
      <<"d", "i", "r", " ", "p">>,
      <<"d", "i", "r", " ", ".">>,
      <<"d", "i", "r", " ", "x">>,
      <<"c", "o", "n", "t", "e", "n", "t">>,
      <<"c", "o", "n", "t", "e", "n", "t", " ", "p", "/", "a", ".", "m", "d">>,
      <<"c", "o", "n", "t", "e", "n", "t", " ", "x">>,
      <<"l", "i", "s", "t">>,
      <<"l", "i", "s", "t", " ", "x">>,
      <<"f", "o", "o">>,
      <<"f", "o", "o", " ", "a">>,
      <<"d", "i", "r", "\t", "p">>,
      <<"s", "e", "a", "r", "c", "h", " ">> }

\* the directory arguments and query texts of the command line
Directories == {<<"p">>, <<".">>, <<"x">>}
Queries == {<<>>, <<"a">>}
NResults == (1..MaxNResults) \cup {DefaultNResults}

\* what the store does with a call: it raises or it answers, ranking its
\* records in some order if the call is a similarity query
Outcomes(st) == [fail : BOOLEAN, rank : Ranks(Len(st))]

InitSearch ==
    /\ ChunkIdle /\ SearchIdle
    /\ \E a \in {Absent, File(TOne), File(TTwo)}, c \in {Absent, File(TOne)} :
          vault = FirstVault(a, c)
    /\ \E walk \in Walks : store = index_vault(<<>>, vault, TRUE, walk).st
    /\ storeBefore = <<>> /\ passes = 1 /\ edits = 0
    /\ fresh = TRUE /\ sameVault = FALSE
    /\ lastClear = TRUE /\ prevClear = FALSE
    /\ failed_files = <<>> /\ total_chunks = Len(store)
    /\ collection_count = Len(store)

\* main() with --directory: search_by_directory, then format_results
MainDirectory(directory, query, n, oc) ==
    /\ loop = "off"
    /\ LET r == search_by_directory(store, directory, query, n, oc) IN
        /\ results' = r.results
        /\ storeCall' = r.calls
        /\ out' = format_results(r.results)
    /\ call' = Called("search_by_directory", directory, query, n)
    /\ loop' = "done"
    /\ UNCHANGED <<event, lastLine, turn, chunkVars, indexVars>>

\* main() with --interactive: interactive_search is entered
StartInteractive ==
    /\ loop = "off"
    /\ loop' = "running"
    /\ UNCHANGED <<results, storeCall, call, out, event, lastLine, turn,
                   chunkVars, indexVars>>

\* the "obsidian> " prompt of the next turn of the while True loop is
\* written; turn is the number of prompts written so far, modulo 2
Prompt == turn' = 1 - turn

\* one turn of the loop: input() gives a line
ReadLine(line, oc) ==
    /\ loop = "running" /\ event # "eof"
    /\ Prompt
    /\ LET r == interactive_search(store, line, oc) IN
        /\ loop' = r.loop
        /\ out' = r.out
        /\ results' = r.results
        /\ storeCall' = r.calls
        /\ call' = r.call
    /\ event' = "line"
    /\ lastLine' = line
    /\ UNCHANGED <<chunkVars, indexVars>>

\* Ctrl-C during a turn: "Exiting...", break
KeyboardInterrupt ==
    /\ loop = "running"
    /\ Prompt
    /\ loop' = "exited"
    /\ out' = Say("exiting")
    /\ event' = "interrupt"
    /\ results' = NoResults /\ storeCall' = <<>> /\ call' = NoCall
    /\ UNCHANGED <<lastLine, chunkVars, indexVars>>

\* input() at the end of the input: EOFError, caught as an Exception and
\* reported; the loop goes on and input() raises again
EndOfInput ==
    /\ loop = "running"
    /\ Prompt
    /\ out' = Say("error")
    /\ event' = "eof"
    /\ results' = NoResults /\ storeCall' = <<>> /\ call' = NoCall
    /\ UNCHANGED <<loop, lastLine, chunkVars, indexVars>>

NextSearch ==
    \/ \E d \in Directories, q \in Queries, n \in NResults, oc \in Outcomes(store) :
          MainDirectory(d, q, n, oc)
    \/ StartInteractive
    \/ \E line \in Lines, oc \in Outcomes(store) : ReadLine(line, oc)
    \/ KeyboardInterrupt
    \/ EndOfInput

SpecSearch == InitSearch /\ [][NextSearch]_vars

\* The loop is the only thread of the process: while it is running and
\* input() has met the end of the input, its next turn is always taken.
\* What the user does (typing a line, Ctrl-C, closing the input) is never
\* forced.
TurnAtEndOfInput == event = "eof" /\ EndOfInput
SpecSearchFair == SpecSearch /\ WF_vars(TurnAtEndOfInput)

----------------------------------------------------------------------------
(* Claims about the indexer *)

\* the records of file f in a collection
RecordsOf(st, f) == SelectSeq(st, LAMBDA r : r.metadata.file_path = RelPath(f))

\* the markdown files a pass is to cover: present, named *.md, under no
\* System directory and under no hidden directory
Enumerated(v) ==
    {f \in Paths :
        /\ v[f].st # "absent"
        /\ EndsWith(f.name, MdExt)
        /\ \A k \in 1..Len(f.dir) : f.dir[k] # SystemDir /\ Head(f.dir[k]) # "."}

\* the chunks chunk_content gives for file f as it is now, none for a file
\* that cannot be read
ChunksOf(v, f) ==
    IF v[f].st = "ok"
    THEN chunk_content(Strip(v[f].text), DefaultChunkSize, DefaultOverlap).chunks
    ELSE <<>>

RECURSIVE SumChunks(_, _)
SumChunks(v, fs) ==
    IF fs = {} THEN 0
    ELSE LET f == CHOOSE x \in fs : TRUE
         IN  Len(ChunksOf(v, f)) + SumChunks(v, fs \ {f})

SeqToSet(q) == {q[k] : k \in 1..Len(q)}

\* C1: a second pass with clear_existing=False over an unchanged vault,
\* after a first pass with clear_existing=False, leaves the collection as
\* the first pass left it: same ids, same documents, same metadata.
C1_ReindexIdempotent ==
    (fresh /\ passes >= 2 /\ sameVault /\ ~lastClear /\ ~prevClear)
        => store = storeBefore

C1_Witness ==
    /\ fresh /\ passes >= 2 /\ sameVault /\ ~lastClear /\ ~prevClear
    /\ Len(RecordsOf(store, PA)) >= 2
    /\ total_chunks >= 3

\* C2: after a pass with clear_existing=False, a file that gives as many
\* chunks as the collection held records for it has, under every one of
\* its ids, the chunk text of the file as it is now, and as many records
\* as before.
C2_ReindexOverwrites ==
    (fresh /\ ~lastClear)
        => \A f \in Enumerated(vault) :
              LET cs == ChunksOf(vault, f) IN
              (cs # <<>> /\ Len(RecordsOf(storeBefore, f)) = Len(cs))
                  => /\ \A j \in 1..Len(cs) :
                          \E k \in 1..Len(store) :
                              /\ store[k].id = DocId(f, j - 1)
                              /\ store[k].document = cs[j]
                     /\ Len(RecordsOf(store, f)) = Len(cs)

C7_FailedIsEveryFileWithoutChunks ==
    fresh => SeqToSet(failed_files) =
                {AbsPath(f) : f \in {g \in Enumerated(vault) :
                                        ChunksOf(vault, g) = <<>>}}

\* C7, amended: the failed-files list holds, once each, exactly the
\* enumerated files whose processing raised (here: that could not be read);
\* empty files are not in it; and every readable file, before or after a
\* failing one, was processed: the reported total counts its chunks.
C7_FailedIsEveryFileThatRaised ==
    fresh => /\ SeqToSet(failed_files) =
                  {AbsPath(f) : f \in {g \in Enumerated(vault) :
                                          vault[g].st = "unreadable"}}
             /\ Len(failed_files) = Cardinality(SeqToSet(failed_files))
             /\ total_chunks = SumChunks(vault, Enumerated(vault))

C7_Witness ==
    /\ fresh
    /\ failed_files = <<AbsPath(PC)>>
    /\ vault[PA].st = "ok" /\ Strip(vault[PA].text) = <<>>
    /\ total_chunks >= 1
    /\ RecordsOf(store, PB) # <<>>

----------------------------------------------------------------------------
(* Claims about chunk_content *)

\* the last n and the first n words of a word list
LastWords(ws, n) == SubSeq(ws, Len(ws) - n + 1, Len(ws))
FirstWords(ws, n) == SubSeq(ws, 1, n)

\* C3 as stated: in a text of more than chunk_size words, every chunk and
\* the chunk after it, the final one included, share exactly overlap words:
\* the last overlap words of the one are the first overlap words of the other.
C3_OverlapEveryPair ==
    (cpc = "returned" /\ Len(Split(content)) > chunk_size)
        => \A k \in 1..(Len(chunks) - 1) :
              LET a == Split(chunks[k])
                  b == Split(chunks[k + 1])
              IN  /\ Len(a) >= overlap /\ Len(b) >= overlap
                  /\ LastWords(a, overlap) = FirstWords(b, overlap)

\* C3, amended: a chunk of the full chunk_size words and the chunk after it
\* share exactly overlap words; a chunk that the end of the text cut short
\* is followed by a chunk made of its last words, fewer than overlap.
C3_OverlapAfterFullWindow ==
    (cpc = "returned" /\ Len(Split(content)) > chunk_size)
        => \A k \in 1..(Len(chunks) - 1) :
              LET a == Split(chunks[k])
                  b == Split(chunks[k + 1])
              IN  IF Len(a) = chunk_size
                  THEN /\ Len(b) >= overlap
                       /\ LastWords(a, overlap) = FirstWords(b, overlap)
                  ELSE /\ Len(b) < overlap
                       /\ Len(b) <= Len(a)
                       /\ LastWords(a, Len(b)) = b

\* a full window followed by a chunk, and a short chunk followed by one
C3_Witness ==
    /\ cpc = "returned" /\ Len(Split(content)) > chunk_size
    /\ overlap >= 2
    /\ Len(chunks) >= 4
    /\ Len(Split(chunks[1])) = chunk_size
    /\ Len(Split(chunks[Len(chunks) - 1])) < chunk_size
    /\ Split(chunks[1]) # Split(chunks[2])

\* content as extract_content leaves it: no blank at either end
IsNormalized(text) == Strip(text) = text

\* C4 as stated: a normalized text of fewer words than chunk_size gives
\* exactly one chunk, the text itself.
C4_ShortTextOneChunk ==
    (cpc = "returned" /\ IsNormalized(content)
        /\ Len(Split(content)) < chunk_size)
        => chunks = <<content>>

\* C4, amended: a normalized text of at least one word and fewer words than
\* chunk_size gives exactly one chunk, the text itself.
C4_ShortNonEmptyTextOneChunk ==
    (cpc = "returned" /\ IsNormalized(content)
        /\ Len(Split(content)) >= 1
        /\ Len(Split(content)) < chunk_size)
        => chunks = <<content>>

\* a text of two words with two blanks between them, returned as it is
C4_Witness ==
    /\ cpc = "returned" /\ IsNormalized(content)
    /\ Len(Split(content)) = 2 /\ chunk_size = 3
    /\ Join(Split(content)) # content
    /\ chunks = <<content>>

\* the words of a list of chunks
WordsIn(cs) == UNION {SeqToSet(Split(cs[k])) : k \in 1..Len(cs)}

\* C11: for a text of more than chunk_size words, whatever the overlap
\* (overlap >= chunk_size included), chunk_content returns, and every word
\* of the text is in at least one of the chunks it returns.
C11_ReturnsAndCoversEveryWord ==
    (cpc # "call" /\ Len(Split(content)) > chunk_size)
        => /\ cpc = "returned"
           /\ SeqToSet(Split(content)) \subseteq WordsIn(chunks)

----------------------------------------------------------------------------
(* Claims about the searcher *)

\* C9: search_by_directory with an empty query makes one plain fetch and no
\* similarity query; it returns at most n_results entries, each a record of
\* the collection whose directory matches the filter, with as many
\* distances as documents, every distance 0.
C9_EmptyQueryIsPlainFetch ==
    (call.op = "search_by_directory" /\ call.query = <<>>)
        => /\ storeCall = <<"get">>
           /\ Len(results.documents) <= call.n
           /\ Len(results.metadatas) = Len(results.documents)
           /\ Len(results.distances) = Len(results.documents)
           /\ \A k \in 1..Len(results.documents) :
                 /\ results.distances[k] = 0
                 /\ RegexSearch(Wrap(call.arg), results.metadatas[k].directory)
                 /\ \E i \in 1..Len(store) :
                       /\ store[i].document = results.documents[k]
                       /\ store[i].metadata = results.metadatas[k]

\* the limit cuts the answer: more records match than n_results
C9_Witness ==
    /\ call.op = "search_by_directory" /\ call.query = <<>>
    /\ Len(results.documents) = call.n
    /\ Len(CollectionGet(store, [field |-> "directory", op |-> "$regex",
                                 arg |-> Wrap(call.arg)])) > call.n
    /\ Len(CollectionGet(store, [field |-> "directory", op |-> "$regex",
                                 arg |-> Wrap(call.arg)])) < Len(store)

\* an input line that is no command: an unknown verb, or search, file, dir
\* or content without an argument
Unrecognized(line) ==
    LET command == Strip(line) IN
    /\ command # <<>>
    /\ Lower(command) \notin QuitWords
    /\ LET parts == SplitOnce(command)
           verb == Lower(parts[1])
       IN  \/ verb \notin {CmdSearch, CmdFile, CmdDir, CmdContent, CmdList}
           \/ (verb \in {CmdSearch, CmdFile, CmdDir, CmdContent} /\ Len(parts) = 1)

\* C10: in the running loop, a line that is no command gets the
\* unknown-command message and leaves the loop running and the collection
\* as it was; the loop stops running only on quit, exit or q, or on a
\* keyboard interrupt.
C10_UnknownCommandKeepsLoop ==
    [][loop = "running" =>
          /\ (event' = "line" /\ Unrecognized(lastLine'))
                => (out'.kind = "unknown" /\ loop' = "running" /\ store' = store)
          /\ (loop' # "running")
                => \/ event' = "interrupt"
                   \/ (event' = "line" /\ Lower(Strip(lastLine')) \in QuitWords)]_vars

\* dir without an argument was answered with the unknown-command message
C10_Witness ==
    /\ loop = "running" /\ event = "line"
    /\ Unrecognized(lastLine)
    /\ Lower(Strip(lastLine)) = CmdDir
    /\ out.kind = "unknown"

\* C12: once input() has met the end of the input, with no quit command
\* and no keyboard interrupt, the loop eventually reaches its exited state
\* instead of taking turns forever.
C12_EndOfInputEndsLoop == (event = "eof") ~> (loop = "exited")

====
